---- MODULE Spec2Model ----
(***************************************************************************)
(* nx-opus: conversion of the proprietary Opus container (magic            *)
(* 0x80000001) into an Ogg Opus stream, as done by src/src/main.rs.        *)
(*                                                                         *)
(* Bytes are integers 0..255 and slices are sequences of bytes.  A parser  *)
(* result (nom's IResult) is a record [ok, rest, val]; only `ok` is read   *)
(* on a failed result.  An Option is a sequence of length 0 (None) or 1    *)
(* (Some).  The Ogg writer is the external `ogg` crate: each write_packet  *)
(* call is recorded in `out` and is taken to succeed.                      *)
(*                                                                         *)
(* TLC integers are 32 bits wide, so the enumerated inputs keep the top    *)
(* byte of every u32 field below 0x80.                                     *)
(***************************************************************************)
EXTENDS Integers, Sequences, FiniteSets, TLC

VARIABLES
    file,     \* the whole input file (line 116)
    pc,       \* position in main()
    result,   \* "running", "Ok", an error name, or a panic name
    hdr,      \* `header` (line 120)
    data,     \* `data`: the slice after the data-section header (line 129)
    iter,     \* `iter`: nom's ParserIterator [input, state] (line 134)
    count,    \* the counter of Enumerate inside `peekable` (line 136)
    peeked,   \* the cache of Peekable: <<>> or <<item>>, item an Option
    i,        \* loop variable `i` (line 140)
    cur,      \* loop variable `packet` (line 140)
    opus,     \* `opus` (line 141)
    size,     \* `size` (line 142)
    pos,      \* `pos` (line 138)
    out       \* the write_packet calls made so far, in order

vars == <<file, pc, result, hdr, data, iter, count, peeked, i, cur, opus, size, pos, out>>

Byte == 0..255

Fail == [ok |-> FALSE]

Drop(s, n) == SubSeq(s, n + 1, Len(s))

(***************************************************************************)
(* nom byte-level combinators used by the parsers.                         *)
(***************************************************************************)
tag(t, input) ==
    IF Len(input) >= Len(t) /\ SubSeq(input, 1, Len(t)) = t
    THEN [ok |-> TRUE, rest |-> Drop(input, Len(t)), val |-> t]
    ELSE Fail

take(n, input) ==
    IF Len(input) >= n
    THEN [ok |-> TRUE, rest |-> Drop(input, n), val |-> SubSeq(input, 1, n)]
    ELSE Fail

le_u8(input) ==
    IF Len(input) >= 1
    THEN [ok |-> TRUE, rest |-> Drop(input, 1), val |-> input[1]]
    ELSE Fail

le_u16(input) ==
    IF Len(input) >= 2
    THEN [ok |-> TRUE, rest |-> Drop(input, 2), val |-> input[1] + 256 * input[2]]
    ELSE Fail

le_u32(input) ==
    IF Len(input) >= 4
    THEN [ok |-> TRUE, rest |-> Drop(input, 4),
          val |-> input[1] + 256 * input[2] + 65536 * input[3] + 16777216 * input[4]]
    ELSE Fail

be_u32(input) ==
    IF Len(input) >= 4
    THEN [ok |-> TRUE, rest |-> Drop(input, 4),
          val |-> 16777216 * input[1] + 65536 * input[2] + 256 * input[3] + input[4]]
    ELSE Fail

\* 0x80000001u32.to_le_bytes()
HEADER_MAGIC == <<1, 0, 0, 128>>

\* 0x80000004u32.to_le_bytes()
DATA_MAGIC == <<4, 0, 0, 128>>

(***************************************************************************)
(* header: the fixed-layout container header.                              *)
(***************************************************************************)
header(input) ==
    LET r1 == tag(HEADER_MAGIC, input) IN
    IF ~r1.ok THEN Fail ELSE
    LET r2 == take(5, r1.rest) IN
    IF ~r2.ok THEN Fail ELSE
    LET r3 == le_u8(r2.rest) IN
    IF ~r3.ok THEN Fail ELSE
    LET r4 == take(2, r3.rest) IN
    IF ~r4.ok THEN Fail ELSE
    LET r5 == le_u32(r4.rest) IN
    IF ~r5.ok THEN Fail ELSE
    LET r6 == le_u32(r5.rest) IN
    IF ~r6.ok THEN Fail ELSE
    LET r7 == take(8, r6.rest) IN
    IF ~r7.ok THEN Fail ELSE
    LET r8 == le_u16(r7.rest) IN
    IF ~r8.ok THEN Fail ELSE
    [ok |-> TRUE, rest |-> r8.rest,
     val |-> [channel_count |-> r3.val, skip |-> r8.val,
              sample_rate |-> r5.val, data_offset |-> r6.val]]

(***************************************************************************)
(* data_header: preceded(tag(magic), le_u32).                              *)
(***************************************************************************)
data_header(input) ==
    LET r1 == tag(DATA_MAGIC, input) IN
    IF ~r1.ok THEN Fail ELSE le_u32(r1.rest)

(***************************************************************************)
(* packet: length_data(terminated(be_u32, take(4))).                       *)
(***************************************************************************)
packet_keep_meta(input) ==
    LET r1 == be_u32(input) IN
    IF ~r1.ok THEN Fail ELSE take(r1.val, r1.rest)

packet(input) ==
    LET r1 == be_u32(input) IN
    IF ~r1.ok THEN Fail ELSE
    LET r2 == take(4, r1.rest) IN
    IF ~r2.ok THEN Fail ELSE take(r1.val, r2.rest)

(***************************************************************************)
(* write_id_header and COMMENT_HEADER.                                     *)
(***************************************************************************)
to_le_bytes16(n) == <<n % 256, (n \div 256) % 256>>

to_le_bytes32(n) ==
    <<n % 256, (n \div 256) % 256, (n \div 65536) % 256, (n \div 16777216) % 256>>

\* b"OpusHead"
OPUS_HEAD == <<79, 112, 117, 115, 72, 101, 97, 100>>

write_id_header(h) ==
    OPUS_HEAD \o <<1>> \o <<h.channel_count>> \o to_le_bytes16(h.skip)
        \o to_le_bytes32(h.sample_rate) \o <<0, 0>> \o <<0>>

\* b"OpusTags\x07\x00\x00\x00nx-opus\x00\x00\x00\x00"
COMMENT_HEADER ==
    <<79, 112, 117, 115, 84, 97, 103, 115, 7, 0, 0, 0,
      110, 120, 45, 111, 112, 117, 115, 0, 0, 0, 0>>

(***************************************************************************)
(* nom::bits, complete: a bit reader over (bytes, bit offset), most        *)
(* significant bit first.  `at` counts the bits already consumed.          *)
(***************************************************************************)
BitAt(bytes, p) ==
    LET b == bytes[(p \div 8) + 1]
        sh == 7 - (p % 8)
    IN  (b \div (2 ^ sh)) % 2

RECURSIVE BitsValue(_, _, _)
BitsValue(bytes, p, n) ==
    IF n = 0 THEN 0
    ELSE 2 * BitsValue(bytes, p, n - 1) + BitAt(bytes, p + n - 1)

bits_take(n, bytes, at) ==
    IF 8 * Len(bytes) < at + n THEN Fail
    ELSE [ok |-> TRUE, at |-> at + n, val |-> BitsValue(bytes, at, n)]

bits_tag(pattern, n, bytes, at) ==
    LET r == bits_take(n, bytes, at) IN
    IF r.ok /\ r.val = pattern THEN r ELSE Fail

(***************************************************************************)
(* opus_packet: the TOC byte (and the frame-count byte of code 3).         *)
(***************************************************************************)
opus_packet_no_skip(input) ==
    LET c == bits_take(5, input, 0) IN
    IF ~c.ok THEN Fail ELSE
    LET s == bits_take(1, input, c.at) IN
    IF ~s.ok THEN Fail ELSE
    LET t0 == bits_tag(0, 2, input, s.at)
        t1 == bits_tag(1, 2, input, s.at)
        t2 == bits_tag(2, 2, input, s.at)
        t3 == bits_tag(3, 2, input, s.at)
        mk(f) == [ok |-> TRUE,
                  val |-> [config |-> c.val, stereo |-> (s.val # 0), frames |-> f]]
    IN  IF t0.ok THEN mk(1)
        ELSE IF t1.ok THEN mk(2)
        ELSE IF t2.ok THEN mk(2)
        ELSE IF ~t3.ok THEN Fail ELSE
             LET f == bits_take(6, input, t3.at) IN
             IF ~f.ok THEN Fail ELSE mk(f.val)

opus_packet(input) ==
    LET c == bits_take(5, input, 0) IN
    IF ~c.ok THEN Fail ELSE
    LET s == bits_take(1, input, c.at) IN
    IF ~s.ok THEN Fail ELSE
    LET t0 == bits_tag(0, 2, input, s.at)
        t1 == bits_tag(1, 2, input, s.at)
        t2 == bits_tag(2, 2, input, s.at)
        t3 == bits_tag(3, 2, input, s.at)
        mk(f) == [ok |-> TRUE,
                  val |-> [config |-> c.val, stereo |-> (s.val # 0), frames |-> f]]
    IN  IF t0.ok THEN mk(1)
        ELSE IF t1.ok THEN mk(2)
        ELSE IF t2.ok THEN mk(2)
        ELSE IF ~t3.ok THEN Fail ELSE
             LET v == bits_take(2, input, t3.at) IN
             IF ~v.ok THEN Fail ELSE
             LET f == bits_take(6, input, v.at) IN
             IF ~f.ok THEN Fail ELSE mk(f.val)

(***************************************************************************)
(* frame_size: the frame duration of a config, in units of 0.1 ms.         *)
(* <<>> stands for the unreachable!() arm.                                 *)
(***************************************************************************)
SILK == <<100, 200, 400, 600>>

HYBRID == <<100, 200>>

CELT == <<25, 50, 100, 200>>

frame_sizes_hybrid_as_celt(config) ==
    IF config \in 0..11 THEN SILK
    ELSE IF config \in 12..31 THEN CELT
    ELSE <<>>

frame_sizes(config) ==
    IF config \in 0..11 THEN SILK
    ELSE IF config \in 12..15 THEN HYBRID
    ELSE IF config \in 16..31 THEN CELT
    ELSE <<>>

frame_size(config) ==
    LET sizes == frame_sizes(config)
        idx == config % Len(sizes)
    IN  sizes[idx + 1]

\* let duration = 48000 * size / 10000, `size` being frame_size(opus.config)
duration_times_frames(sz, o) == (48000 * sz * o.frames) \div 10000

duration(sz, o) == (48000 * sz) \div 10000

(***************************************************************************)
(* The page boundary of a data packet (lines 147-153).  The caller guards  *)
(* the remainder: with channel_count = 0 the `%` panics.                   *)
(***************************************************************************)
end_info_no_end_stream(isNone, idx, channel_count) ==
    IF channel_count # 0 /\ (idx + 1) % channel_count = 0 THEN "EndPage"
    ELSE "NormalPacket"

end_info_page_first(isNone, idx, channel_count) ==
    IF channel_count # 0 /\ (idx + 1) % channel_count = 0 THEN "EndPage"
    ELSE IF isNone THEN "EndStream"
    ELSE "NormalPacket"

end_info(isNone, idx, channel_count) ==
    IF isNone THEN "EndStream"
    ELSE IF (idx + 1) % channel_count = 0 THEN "EndPage"
    ELSE "NormalPacket"

\* writer.write_packet(payload, serial, end, granule)
write_packet(w, payload, serial, end, granule) ==
    Append(w, [payload |-> payload, serial |-> serial, end |-> end, granule |-> granule])

(***************************************************************************)
(* iterator(data, packet): nom's ParserIterator, and the Enumerate and     *)
(* Peekable adaptors stacked on it (lines 134-136).                        *)
(***************************************************************************)
ParserIterator_next(it) ==
    IF it.state = "Running"
    THEN LET r == packet(it.input) IN
         IF r.ok
         THEN [iter |-> [input |-> r.rest, state |-> "Running"], item |-> <<r.val>>]
         ELSE [iter |-> [input |-> it.input, state |-> "Done"], item |-> <<>>]
    ELSE [iter |-> it, item |-> <<>>]

Enumerate_next(it, n) ==
    LET r == ParserIterator_next(it) IN
    IF r.item = <<>>
    THEN [iter |-> r.iter, count |-> n, item |-> <<>>]
    ELSE [iter |-> r.iter, count |-> n + 1, item |-> << <<n, r.item[1]>> >>]

\* Peekable::next: the cached item if there is one, else the next of Enumerate
Peekable_next(it, n, pk) ==
    IF pk # <<>>
    THEN [iter |-> it, count |-> n, peeked |-> <<>>, item |-> pk[1]]
    ELSE LET r == Enumerate_next(it, n) IN
         [iter |-> r.iter, count |-> r.count, peeked |-> <<>>, item |-> r.item]

\* Peekable::peek: fills the cache if it is empty
Peekable_peek(it, n, pk) ==
    IF pk # <<>>
    THEN [iter |-> it, count |-> n, peeked |-> pk, item |-> pk[1]]
    ELSE LET r == Enumerate_next(it, n) IN
         [iter |-> r.iter, count |-> r.count, peeked |-> <<r.item>>, item |-> r.item]

\* ParserIterator::finish: Running | Done => Ok, Failure | Incomplete => Err
ParserIterator_finish(it) == it.state \in {"Running", "Done"}

(***************************************************************************)
(* The input files the model runs on.  Each is built byte by byte in the   *)
(* container's layout; the parsers above never see how it was built.       *)
(***************************************************************************)
MaxPackets == 6

MaxChannels == 2

MaxShort == 2

ContainerHeader(cc, skip, rate, off) ==
    HEADER_MAGIC \o <<0, 0, 0, 0, 0>> \o <<cc>> \o <<0, 0>>
        \o to_le_bytes32(rate) \o to_le_bytes32(off)
        \o <<0, 0, 0, 0, 0, 0, 0, 0>> \o to_le_bytes16(skip)

Record(payload) ==
    <<0, 0, 0, Len(payload)>> \o <<9, 8, 7, 6>> \o payload

RECURSIVE Records(_)
Records(pkts) ==
    IF Len(pkts) = 0 THEN <<>>
    ELSE Record(pkts[1]) \o Records([k \in 1..(Len(pkts) - 1) |-> pkts[k + 1]])

Section(pkts, trail) ==
    LET body == Records(pkts) \o trail IN
    DATA_MAGIC \o to_le_bytes32(Len(body)) \o body

\* 0xFC 0xAA: config 31, stereo, code 0.  0x83 0x82 0x07: config 16, mono,
\* code 3 with frame-count byte 0x82.
GoodPayloads == {<<252, 170>>, <<131, 130, 7>>}

\* no TOC byte at all; 0x03: config 0, code 3, and no frame-count byte
BadPayloads == {<<>>, <<3>>}

GoodLists(n) == [1..n -> GoodPayloads]

OneBadLists(n) ==
    {[l EXCEPT ![k] = b] : l \in GoodLists(n), k \in 1..n, b \in BadPayloads}

PacketLists == UNION {GoodLists(n) \cup OneBadLists(n) : n \in 0..MaxPackets}

ShortLists == UNION {GoodLists(n) \cup OneBadLists(n) : n \in 0..MaxShort}

\* partial trailing records: 1 and 7 leftover bytes, a full record header
\* whose length exceeds what remains (nothing, then 2 of 3 bytes)
Trailers ==
    {<<0>>, <<0, 0, 0, 1, 9, 8, 7>>, <<0, 0, 0, 5, 9, 8, 7, 6>>,
     <<0, 0, 0, 3, 9, 8, 7, 6, 96, 1>>}

MainFiles ==
    {ContainerHeader(cc, 312, 48000, 30) \o Section(pkts, <<>>) :
        cc \in 0..MaxChannels, pkts \in PacketLists}

TrailFiles ==
    {ContainerHeader(cc, 312, 48000, 30) \o Section(pkts, trail) :
        cc \in 0..MaxChannels, pkts \in ShortLists, trail \in Trailers}

\* no bytes, the magic alone, one byte short of the layout, a wrong magic
HeaderFiles ==
    LET good == ContainerHeader(1, 0, 44100, 30) \o Section(<<>>, <<>>) IN
    {<<>>, HEADER_MAGIC, SubSeq(good, 1, 29), <<4>> \o Drop(good, 1)}

\* data_offset pointing at the section behind two bytes of padding (32), at
\* the padding (30: wrong magic), at the last 7, 4 and 0 bytes of the file,
\* and behind the end of the file
OffsetFiles ==
    LET sec == <<7, 7>> \o Section(<<<<96>>>>, <<>>)
        n == 30 + Len(sec)
    IN  {ContainerHeader(cc, 0, 44100, off) \o sec :
            cc \in 1..MaxChannels, off \in {32, 30, n - 7, n - 4, n, n + 1, n + 3}}

Files == MainFiles \cup TrailFiles \cup HeaderFiles \cup OffsetFiles

(***************************************************************************)
(* main()                                                                  *)
(***************************************************************************)
NoHeader == [channel_count |-> 0, skip |-> 0, sample_rate |-> 0, data_offset |-> 0]

NoOpus == [config |-> 0, stereo |-> FALSE, frames |-> 0]

NoIter == [input |-> <<>>, state |-> "Running"]

Init ==
    /\ file \in Files
    /\ pc = "header"
    /\ result = "running"
    /\ hdr = NoHeader
    /\ data = <<>>
    /\ iter = NoIter
    /\ count = 0
    /\ peeked = <<>>
    /\ i = 0
    /\ cur = <<>>
    /\ opus = NoOpus
    /\ size = 0
    /\ pos = 0
    /\ out = <<>>

\* line 120
ParseHeader ==
    /\ pc = "header"
    /\ LET r == header(file) IN
       IF r.ok
       THEN /\ hdr' = r.val
            /\ pc' = "id_header"
            /\ UNCHANGED result
       ELSE /\ result' = "MalformedHeader"
            /\ pc' = "done"
            /\ UNCHANGED hdr
    /\ UNCHANGED <<file, data, iter, count, peeked, i, cur, opus, size, pos, out>>

\* lines 123-125
WriteIdHeader ==
    /\ pc = "id_header"
    /\ out' = write_packet(out, write_id_header(hdr), 0, "EndPage", 0)
    /\ pc' = "comment_header"
    /\ UNCHANGED <<file, result, hdr, data, iter, count, peeked, i, cur, opus, size, pos>>

\* line 127
WriteCommentHeader ==
    /\ pc = "comment_header"
    /\ out' = write_packet(out, COMMENT_HEADER, 0, "EndPage", 0)
    /\ pc' = "data_header"
    /\ UNCHANGED <<file, result, hdr, data, iter, count, peeked, i, cur, opus, size, pos>>

\* lines 129-138: &file[data_offset..] panics when data_offset > file.len()
LocateData ==
    /\ pc = "data_header"
    /\ IF hdr.data_offset > Len(file)
       THEN /\ result' = "PanicSliceIndex"
            /\ pc' = "done"
            /\ UNCHANGED <<data, iter, count, peeked, pos>>
       ELSE LET r == data_header(Drop(file, hdr.data_offset)) IN
            IF r.ok
            THEN /\ data' = r.rest
                 /\ iter' = [input |-> r.rest, state |-> "Running"]
                 /\ count' = 0
                 /\ peeked' = <<>>
                 /\ pos' = 0
                 /\ pc' = "loop"
                 /\ UNCHANGED result
            ELSE /\ result' = "MalformedDataSection"
                 /\ pc' = "done"
                 /\ UNCHANGED <<data, iter, count, peeked, pos>>
    /\ UNCHANGED <<file, hdr, i, cur, opus, size, out>>

\* line 140: while let Some((i, packet)) = peekable.next()
LoopNext ==
    /\ pc = "loop"
    /\ LET r == Peekable_next(iter, count, peeked) IN
       /\ iter' = r.iter
       /\ count' = r.count
       /\ peeked' = r.peeked
       /\ IF r.item = <<>>
          THEN /\ pc' = "finish"
               /\ UNCHANGED <<i, cur>>
          ELSE /\ pc' = "body"
               /\ i' = r.item[1][1]
               /\ cur' = r.item[1][2]
    /\ UNCHANGED <<file, result, hdr, data, opus, size, pos, out>>

\* the loop body with the packet handed to the writer before its TOC is decoded
LoopBodyWriteFirst ==
    /\ pc = "body"
    /\ LET o == opus_packet(cur) IN
       IF ~o.ok
       THEN /\ result' = "TruncatedPacket"
            /\ pc' = "done"
            /\ out' = write_packet(out, cur, 0, "NormalPacket", pos)
            /\ UNCHANGED <<iter, count, peeked, opus, size, pos>>
       ELSE IF frame_sizes(o.val.config) = <<>>
       THEN /\ result' = "PanicUnreachable"
            /\ pc' = "done"
            /\ opus' = o.val
            /\ UNCHANGED <<iter, count, peeked, size, pos, out>>
       ELSE LET sz == frame_size(o.val.config)
                p == pos + duration(sz, o.val)
                pk == Peekable_peek(iter, count, peeked)
            IN  /\ opus' = o.val
                /\ size' = sz
                /\ pos' = p
                /\ iter' = pk.iter
                /\ count' = pk.count
                /\ peeked' = pk.peeked
                /\ IF pk.item # <<>> /\ hdr.channel_count = 0
                   THEN /\ result' = "PanicRemainderByZero"
                        /\ pc' = "done"
                        /\ UNCHANGED out
                   ELSE /\ out' = write_packet(out, cur, 0,
                                      end_info(pk.item = <<>>, i, hdr.channel_count), p)
                        /\ pc' = "loop"
                        /\ UNCHANGED result
    /\ UNCHANGED <<file, hdr, data, i, cur>>

\* lines 141-154
LoopBody ==
    /\ pc = "body"
    /\ LET o == opus_packet(cur) IN
       IF ~o.ok
       THEN /\ result' = "TruncatedPacket"
            /\ pc' = "done"
            /\ UNCHANGED <<iter, count, peeked, opus, size, pos, out>>
       ELSE IF frame_sizes(o.val.config) = <<>>
       THEN /\ result' = "PanicUnreachable"
            /\ pc' = "done"
            /\ opus' = o.val
            /\ UNCHANGED <<iter, count, peeked, size, pos, out>>
       ELSE LET sz == frame_size(o.val.config)
                p == pos + duration(sz, o.val)
                pk == Peekable_peek(iter, count, peeked)
            IN  /\ opus' = o.val
                /\ size' = sz
                /\ pos' = p
                /\ iter' = pk.iter
                /\ count' = pk.count
                /\ peeked' = pk.peeked
                /\ IF pk.item # <<>> /\ hdr.channel_count = 0
                   THEN /\ result' = "PanicRemainderByZero"
                        /\ pc' = "done"
                        /\ UNCHANGED out
                   ELSE /\ out' = write_packet(out, cur, 0,
                                      end_info(pk.item = <<>>, i, hdr.channel_count), p)
                        /\ pc' = "loop"
                        /\ UNCHANGED result
    /\ UNCHANGED <<file, hdr, data, i, cur>>

\* lines 157-159
Finish ==
    /\ pc = "finish"
    /\ result' = IF ParserIterator_finish(iter) THEN "Ok" ELSE "MalformedPacketFrame"
    /\ pc' = "done"
    /\ UNCHANGED <<file, hdr, data, iter, count, peeked, i, cur, opus, size, pos, out>>

Next ==
    \/ ParseHeader
    \/ WriteIdHeader
    \/ WriteCommentHeader
    \/ LocateData
    \/ LoopNext
    \/ LoopBody
    \/ Finish

Spec == Init /\ [][Next]_vars

(***************************************************************************)
(* opus_packet and frame_size on their own: every TOC byte, every          *)
(* frame-count byte behind a code-3 TOC byte, and payloads of 0 to 3       *)
(* bytes.  `pos` holds the duration computed for the one packet.           *)
(***************************************************************************)
TocPayloads ==
    {<<>>}
        \cup {<<b>> : b \in Byte}
        \cup {<<b, c>> : b \in {x \in Byte : x % 4 = 3}, c \in Byte}
        \cup {<<b, c>> : b \in Byte, c \in {0, 255}}
        \cup {<<b, c, 7>> : b \in Byte, c \in {63, 192}}

InitToc ==
    /\ cur \in TocPayloads
    /\ pc = "toc"
    /\ file = <<>>
    /\ result = "running"
    /\ hdr = NoHeader
    /\ data = <<>>
    /\ iter = NoIter
    /\ count = 0
    /\ peeked = <<>>
    /\ i = 0
    /\ opus = NoOpus
    /\ size = 0
    /\ pos = 0
    /\ out = <<>>

\* line 141
TocDecode ==
    /\ pc = "toc"
    /\ LET o == opus_packet(cur) IN
       IF o.ok
       THEN /\ opus' = o.val
            /\ pc' = "toc_size"
            /\ UNCHANGED result
       ELSE /\ result' = "TruncatedPacket"
            /\ pc' = "toc_done"
            /\ UNCHANGED opus
    /\ UNCHANGED <<file, hdr, data, iter, count, peeked, i, cur, size, pos, out>>

\* lines 142-145
TocFrameSize ==
    /\ pc = "toc_size"
    /\ IF frame_sizes(opus.config) = <<>>
       THEN /\ result' = "PanicUnreachable"
            /\ UNCHANGED <<size, pos>>
       ELSE /\ size' = frame_size(opus.config)
            /\ pos' = pos + duration(size', opus)
            /\ UNCHANGED result
    /\ pc' = "toc_done"
    /\ UNCHANGED <<file, hdr, data, iter, count, peeked, i, cur, opus, out>>

NextToc ==
    \/ TocDecode
    \/ TocFrameSize

SpecToc == InitToc /\ [][NextToc]_vars

(***************************************************************************)
(* The properties.  The Ref* operators restate the container's documented  *)
(* layout directly on bytes, independently of the parsers above.           *)
(***************************************************************************)
\* the payloads of the complete records at the front of a data stream
RECURSIVE RefPayloads(_)
RefPayloads(d) ==
    IF Len(d) < 8 THEN <<>>
    ELSE LET n == 16777216 * d[1] + 65536 * d[2] + 256 * d[3] + d[4] IN
         IF Len(d) - 8 < n THEN <<>>
         ELSE <<SubSeq(d, 9, 8 + n)>> \o RefPayloads(Drop(d, 8 + n))

\* the bytes left behind the complete records
RECURSIVE RefLeftover(_)
RefLeftover(d) ==
    IF Len(d) < 8 THEN d
    ELSE LET n == 16777216 * d[1] + 65536 * d[2] + 256 * d[3] + d[4] IN
         IF Len(d) - 8 < n THEN d ELSE RefLeftover(Drop(d, 8 + n))

RefDecodable(p) == Len(p) >= 1 /\ (p[1] % 4 = 3 => Len(p) >= 2)

RefTable(config) ==
    IF config <= 11 THEN <<100, 200, 400, 600>>
    ELSE IF config <= 15 THEN <<100, 200>>
    ELSE <<25, 50, 100, 200>>

RefFrameSize(config) == RefTable(config)[(config % Len(RefTable(config))) + 1]

RefDuration(p) == (48000 * RefFrameSize(p[1] \div 8)) \div 10000

RefEnd(k, n, c) ==
    IF k = n - 1 THEN "EndStream"
    ELSE IF (k + 1) % c = 0 THEN "EndPage"
    ELSE "NormalPacket"

HeaderParsed == pc # "header" /\ result # "MalformedHeader"

\* C1: the conversion succeeds only when the packet framer stopped with zero
\* bytes remaining; a partial trailing record makes it end in an error
C1_OkOnlyWhenInputExhausted ==
    result = "Ok" => (iter.input = <<>> /\ RefLeftover(data) = <<>>)

\* C2: whenever the header parser succeeds the header has channel_count >= 1,
\* and the remainder (i + 1) mod channel_count is never taken with a zero divisor
C2_ChannelCountAtLeastOne ==
    HeaderParsed => (hdr.channel_count >= 1 /\ result # "PanicRemainderByZero")

\* C3: with a valid header, fewer than 8 bytes at data_offset (data_offset
\* behind the end of the buffer included) or a wrong magic there ends the
\* conversion with the MalformedDataSection error, never with a crash
C3_BadDataSectionIsError ==
    (/\ HeaderParsed
     /\ pc \notin {"id_header", "comment_header", "data_header"}
     /\ \/ Len(file) - hdr.data_offset < 8
        \/ SubSeq(file, hdr.data_offset + 1, hdr.data_offset + 4) # DATA_MAGIC)
    => result = "MalformedDataSection"

\* C4 as claimed: in every successful conversion, for every packet count
\* N >= 0, the last packet written carries EndStream and no earlier one does
C4_LastWrittenIsEndStream ==
    result = "Ok" =>
        /\ out[Len(out)].end = "EndStream"
        /\ \A k \in 1..(Len(out) - 1) : out[k].end # "EndStream"

\* C4 as amended: in every successful conversion of a stream of N >= 1 data
\* packets, the last packet written carries EndStream and no earlier one does
C4_EndStreamLastWhenData ==
    (result = "Ok" /\ Len(RefPayloads(data)) >= 1) =>
        /\ out[Len(out)].end = "EndStream"
        /\ \A k \in 1..(Len(out) - 1) : out[k].end # "EndStream"

C4_Witness ==
    /\ result = "Ok"
    /\ Len(RefPayloads(data)) >= 3
    /\ Len(out) = Len(RefPayloads(data)) + 2
    /\ hdr.channel_count = 1

\* C5: for channel count C >= 1 and a stream of N >= 1 packets, the packet
\* with index i is written with EndStream if i = N-1, else with EndPage if
\* (i+1) mod C = 0, else with NormalPacket; C = 2 and N = 6 gives
\* [Normal, EndPage, Normal, EndPage, Normal, EndStream]
C5_BoundaryDecision ==
    hdr.channel_count >= 1 =>
        /\ \A k \in 3..Len(out) :
              out[k].end = RefEnd(k - 3, Len(RefPayloads(data)), hdr.channel_count)
        /\ (result = "Ok" /\ hdr.channel_count = 2 /\ Len(RefPayloads(data)) = 6) =>
              [k \in 1..6 |-> out[k + 2].end] =
                  <<"NormalPacket", "EndPage", "NormalPacket", "EndPage",
                    "NormalPacket", "EndStream">>

C5_Witness ==
    /\ result = "Ok"
    /\ hdr.channel_count = 2
    /\ Len(RefPayloads(data)) = 6
    /\ Len(out) = 8

\* C6: the granule position starts at 0; packet k is stamped with the stamp
\* of packet k-1 (0 for k = 0) plus its own duration, which depends on its
\* config alone; consecutive stamps strictly increase
C6_GranuleAccumulates ==
    /\ (Len(out) <= 2 /\ pc \in {"loop", "body", "finish"}) => pos = 0
    /\ \A k \in 3..Len(out) :
          LET prev == IF k = 3 THEN 0 ELSE out[k - 1].granule IN
          /\ out[k].granule = prev + RefDuration(out[k].payload)
          /\ out[k].granule > prev

C6_Witness ==
    /\ Len(out) >= 5
    /\ out[3].payload = <<131, 130, 7>>
    /\ out[4].payload = <<252, 170>>
    /\ out[4].granule = 1080

\* C7: a valid container with channel_count >= 1 and N well-formed packets
\* with decodable TOC bytes is converted to exactly N+2 packets on serial 0:
\* the identification header (EndPage, granule 0), the comment header
\* (EndPage, granule 0), then the N payloads unchanged and in order
C7_ValidContainer ==
    /\ header(file).ok
    /\ header(file).val.channel_count >= 1
    /\ header(file).val.data_offset <= Len(file)
    /\ data_header(Drop(file, header(file).val.data_offset)).ok
    /\ LET d == data_header(Drop(file, header(file).val.data_offset)).rest IN
       /\ RefLeftover(d) = <<>>
       /\ \A k \in 1..Len(RefPayloads(d)) : RefDecodable(RefPayloads(d)[k])

C7_OutputSequence ==
    /\ Len(out) >= 1 =>
          /\ Len(out[1].payload) = 19
          /\ SubSeq(out[1].payload, 1, 8) = <<79, 112, 117, 115, 72, 101, 97, 100>>
          /\ out[1].payload[10] = hdr.channel_count
          /\ out[1].serial = 0 /\ out[1].end = "EndPage" /\ out[1].granule = 0
    /\ Len(out) >= 2 =>
          /\ SubSeq(out[2].payload, 1, 8) = <<79, 112, 117, 115, 84, 97, 103, 115>>
          /\ out[2].serial = 0 /\ out[2].end = "EndPage" /\ out[2].granule = 0
    /\ \A k \in 3..Len(out) :
          /\ out[k].serial = 0
          /\ k - 2 <= Len(RefPayloads(data))
          /\ out[k].payload = RefPayloads(data)[k - 2]
    /\ (pc = "done" /\ C7_ValidContainer) =>
          /\ result = "Ok"
          /\ Len(out) = Len(RefPayloads(data)) + 2

C7_Witness ==
    /\ pc = "done"
    /\ C7_ValidContainer
    /\ Len(out) = 5
    /\ out[3].payload # out[4].payload

\* C8: the TOC inspector succeeds exactly on payloads of at least 1 byte and,
\* when the low 2 bits of byte 0 are 3, at least 2 bytes; then config is the
\* top 5 bits of byte 0, stereo is bit 2 of byte 0, and the frame count is 1
\* for code 0, 2 for codes 1 and 2, the low 6 bits of byte 1 for code 3
C8_TocDecode ==
    pc \in {"toc_size", "toc_done"} =>
        /\ (result # "TruncatedPacket") <=> RefDecodable(cur)
        /\ result # "TruncatedPacket" =>
              /\ opus.config = cur[1] \div 8
              /\ opus.config \in 0..31
              /\ opus.stereo = ((cur[1] \div 4) % 2 = 1)
              /\ opus.frames = CASE cur[1] % 4 = 0 -> 1
                                 [] cur[1] % 4 = 1 -> 2
                                 [] cur[1] % 4 = 2 -> 2
                                 [] cur[1] % 4 = 3 -> cur[2] % 64

C8_Witness ==
    /\ pc = "toc_size"
    /\ cur = <<255, 255>>
    /\ opus = [config |-> 31, stereo |-> TRUE, frames |-> 63]

\* C9: for every config in 0..31 frame_size(config) is the entry at index
\* (config mod table length) of the table of its range, the duration
\* 48000 * value / 10000 is exact and one of 120, 240, 480, 960, 1920, 2880,
\* and the unreachable arm is never taken
C9_FrameSize ==
    /\ result # "PanicUnreachable"
    /\ (pc = "toc_done" /\ result = "running") =>
          /\ size = RefFrameSize(opus.config)
          /\ (48000 * size) % 10000 = 0
          /\ pos * 10000 = 48000 * size
          /\ pos \in {120, 240, 480, 960, 1920, 2880}

C9_Witness ==
    /\ pc = "toc_done"
    /\ opus.config = 13
    /\ size = 200
    /\ pos = 960

\* C10: when TOC decoding fails on packet k the conversion aborts at once:
\* the 2 header packets and data packets 0..k-1 have been written and nothing
\* else ever is, the granule counter is not advanced for packet k, and no
\* written packet carries EndStream
C10_TocFailureAborts ==
    (result = "TruncatedPacket") =>
        /\ pc = "done"
        /\ ~ENABLED Next
        /\ cur = RefPayloads(data)[i + 1]
        /\ ~RefDecodable(cur)
        /\ Len(out) = i + 2
        /\ \A k \in 1..i : out[k + 2].payload = RefPayloads(data)[k]
        /\ pos = out[Len(out)].granule
        /\ \A k \in 1..Len(out) : out[k].end # "EndStream"

C10_Witness ==
    /\ result = "TruncatedPacket"
    /\ i = 2
    /\ cur = <<3>>
    /\ Len(out) = 4
    /\ pos > 0

====
